---- MODULE Spec2Model ----
(***************************************************************************)
(* clock_nanosleep() for MinGW (src/clock_nanosleep.c) and its timespec    *)
(* helpers timersub()/timeradd().                                          *)
(*                                                                         *)
(* A timespec is a record [tv_sec, tv_nsec].  A LARGE_INTEGER (64 bits) is *)
(* kept as a record [q, r] standing for q * POW10_9 + r with               *)
(* 0 <= r < POW10_9, because DELTA_EPOCH_IN_100NS does not fit the         *)
(* integers of the model checker.                                          *)
(*                                                                         *)
(* The collaborators (registry read, CreateWaitableTimerEx,                *)
(* SetWaitableTimer, WaitForSingleObject, CloseHandle, clock_gettime,      *)
(* nanosleep) are the environment: each step that calls one draws its      *)
(* outcome from the outcomes the collaborator can produce.                 *)
(***************************************************************************)
EXTENDS Integers, FiniteSets, Sequences, TLC

VARIABLES
    pc,               \* position of the thread inside clock_nanosleep
    clock_id,         \* argument
    flags,            \* argument
    request,          \* argument: *request
    hasRemain,        \* argument: remain != NULL
    remain,           \* the caller's *remain
    remainWrites,     \* number of stores to *remain during the current call
    liDueTime,        \* local: liDueTime.QuadPart
    timerCreateFlags, \* local
    hTimer,           \* local: 0 is the NULL handle
    then,             \* local
    now,              \* local
    elapsed,          \* local
    retval,           \* local
    st,               \* local: result of WaitForSingleObject
    result,           \* value returned by the last finished call
    errno,            \* the thread's errno
    mono,             \* last value read from the monotonic clock
    openHandles,      \* timer handles created and not yet closed
    calls,            \* collaborator invocations during the current call
    total,            \* collaborator invocations over all calls
    sleepArgs,        \* arguments of the last nanosleep() invocation
    sleepRet,         \* what that nanosleep() invocation returned
    armCall,          \* due time passed to SetWaitableTimer() and its outcome
    nCalls,           \* number of clock_nanosleep calls started
    ta, tb, tc, td,   \* operands and results of the timespec helpers
    apc,              \* which helper produced tc/td
    rpc,              \* position of the thread inside realpath
    resolved,         \* argument: resolved_path != NULL
    hPath,            \* local: handle returned by CreateFile
    finalName,        \* final path name of the file hPath refers to
    sz,               \* local: s
    fn,               \* local: what fn points to
    rpResult,         \* what the last finished realpath call returned
    pathErrno,        \* errno as left by setErrno
    fileHandles,      \* file handles opened and not yet closed
    pathCalls,        \* collaborator invocations during the current call
    nPathCalls,       \* number of calls of the functions of symlink.c started
    op,               \* last finished call of readlink, isSymLink, lstat,
                      \* symlink or link: its name, result and collaborators
    searchHandles     \* handles FindFirstFile returned, not yet released

vars == <<pc, clock_id, flags, request, hasRemain, remain, remainWrites,
          liDueTime, timerCreateFlags, hTimer, then, now, elapsed, retval, st,
          result, errno, mono, openHandles, calls, total, sleepArgs, sleepRet,
          armCall, nCalls, ta, tb, tc, td, apc, rpc, resolved, hPath,
          finalName, sz, fn, rpResult, pathErrno, fileHandles, pathCalls,
          nPathCalls, op, searchHandles>>

callVars == <<pc, clock_id, flags, request, hasRemain, remain, remainWrites,
              liDueTime, timerCreateFlags, hTimer, then, now, elapsed, retval,
              st, result, errno, mono, openHandles, calls, total, sleepArgs,
              sleepRet, armCall, nCalls>>

arithVars == <<ta, tb, tc, td, apc>>

pathVars == <<rpc, resolved, hPath, finalName, sz, fn, rpResult, pathErrno,
              fileHandles, pathCalls, nPathCalls, op, searchHandles>>

(***************************************************************************)
(* Program constants                                                       *)
(***************************************************************************)
POW10_9 == 1000000000

Win2004_BUILD_NUMBER == 19041

CREATE_WAITABLE_TIMER_HIGH_RESOLUTION == 2

CREATE_WAITABLE_TIMER_MANUAL_RESET == 1

CLOCK_REALTIME == 0

CLOCK_MONOTONIC == 1

CLOCK_PROCESS_CPUTIME_ID == 2

TIMER_ABSTIME == 1

EINTR == 4

EINVAL == 22

ENOTSUP == 129

WAIT_OBJECT_0 == 0

\* (DWORD)0xFFFFFFFF, written as the 32-bit two's complement value
WAIT_FAILED == -1

\* 116444736000000000 = 116444736 * 10^9
DELTA_EPOCH_IN_100NS == [q |-> 116444736, r |-> 0]

(***************************************************************************)
(* Bounds of the model                                                     *)
(***************************************************************************)
MaxSec == 1

MaxCalls == 2

ArithSec == 2

MaxPathCalls == 2

(***************************************************************************)
(* Input domains                                                           *)
(***************************************************************************)
TimeSpec(s, n) == [tv_sec |-> s, tv_nsec |-> n]

\* normalized nanosecond values: both ends of the range, and the two
\* values around one 100 ns tick
NsecVals == {0, 99, 100, POW10_9 - 1}

\* nanosecond values a caller can pass, the out-of-range ones included
ReqNsecVals == NsecVals \cup {-1, POW10_9}

Requests == {TimeSpec(s, n) : s \in -1 .. MaxSec, n \in ReqNsecVals}

ClockVals == {TimeSpec(s, n) : s \in 0 .. MaxSec, n \in NsecVals}

ClockIds == {CLOCK_REALTIME, CLOCK_MONOTONIC, CLOCK_PROCESS_CPUTIME_ID}

FlagVals == {0, TIMER_ABSTIME}

BuildNumbers == {Win2004_BUILD_NUMBER - 1, Win2004_BUILD_NUMBER}

WaitOutcomes == {WAIT_OBJECT_0, WAIT_FAILED}

\* for the helpers also the value whose double is exactly POW10_9
ArithNsecVals == NsecVals \cup {POW10_9 \div 2}

ArithVals ==
    {TimeSpec(s, n) : s \in -ArithSec .. ArithSec, n \in ArithNsecVals}

NoTime == TimeSpec(0, 0)

\* what the caller's buffer holds before the call writes it
Garbage == TimeSpec(-1, -1)

NoCalls == [probe |-> 0, create |-> 0, clock |-> 0, arm |-> 0, wait |-> 0,
            close |-> 0, sleep |-> 0]

NoSleep == [req |-> NoTime, rem |-> FALSE]

NoArm == [due |-> [q |-> 0, r |-> 0], ok |-> FALSE]

TimeLE(a, b) ==
    \/ a.tv_sec < b.tv_sec
    \/ a.tv_sec = b.tv_sec /\ a.tv_nsec <= b.tv_nsec

(***************************************************************************)
(* Pure helpers of the source                                              *)
(***************************************************************************)
lc_set_errno(res, cur) ==
    IF res # 0 THEN [ret |-> -1, err |-> res] ELSE [ret |-> 0, err |-> cur]

\* mutant: the borrow adds POW10_9 but does not decrement tv_sec
timersub_nodec(a, b) ==
    LET sec  == a.tv_sec - b.tv_sec
        nsec == a.tv_nsec - b.tv_nsec
    IN  IF nsec < 0 THEN TimeSpec(sec, nsec + POW10_9)
                    ELSE TimeSpec(sec, nsec)

timersub(a, b) ==
    LET sec  == a.tv_sec - b.tv_sec
        nsec == a.tv_nsec - b.tv_nsec
    IN  IF nsec < 0 THEN TimeSpec(sec - 1, nsec + POW10_9)
                    ELSE TimeSpec(sec, nsec)

\* mutant: the carry tested with > instead of >=
timeradd_gt(a, b) ==
    LET sec  == a.tv_sec + b.tv_sec
        nsec == a.tv_nsec + b.tv_nsec
    IN  IF nsec > POW10_9 THEN TimeSpec(sec + 1, nsec - POW10_9)
                          ELSE TimeSpec(sec, nsec)

timeradd(a, b) ==
    LET sec  == a.tv_sec + b.tv_sec
        nsec == a.tv_nsec + b.tv_nsec
    IN  IF nsec >= POW10_9 THEN TimeSpec(sec + 1, nsec - POW10_9)
                           ELSE TimeSpec(sec, nsec)

\* haveHighResTimer(): s is the status of RegGetValueA, curVer is atoi(bn)
haveHighResTimer(s, curVer) ==
    IF s = 0 THEN curVer >= Win2004_BUILD_NUMBER ELSE FALSE

\* -x on a 64-bit value
QuadNeg(x) ==
    IF x.r = 0 THEN [q |-> -x.q, r |-> 0]
               ELSE [q |-> -x.q - 1, r |-> POW10_9 - x.r]

\* x + y on 64-bit values
QuadAdd(x, y) ==
    LET s == x.r + y.r
    IN  IF s >= POW10_9 THEN [q |-> x.q + y.q + 1, r |-> s - POW10_9]
                        ELSE [q |-> x.q + y.q, r |-> s]

\* x / 100 on a non-negative 64-bit value (POW10_9 is a multiple of 100)
QuadDiv100(x) ==
    [q |-> x.q \div 100,
     r |-> (x.q % 100) * (POW10_9 \div 100) + x.r \div 100]

\* mutant: the relative due time is not negated
DueTime_nonegate(req, fl) ==
    LET ticks == QuadDiv100([q |-> req.tv_sec, r |-> req.tv_nsec])
    IN  IF fl = 0 THEN ticks
                  ELSE QuadAdd(ticks, DELTA_EPOCH_IN_100NS)

\* liDueTime.QuadPart as computed from a validated request
DueTime(req, fl) ==
    LET ticks == QuadDiv100([q |-> req.tv_sec, r |-> req.tv_nsec])
    IN  IF fl = 0 THEN QuadNeg(ticks)
                  ELSE QuadAdd(ticks, DELTA_EPOCH_IN_100NS)

\* mutant: the upper limit of tv_nsec tested with > instead of >=
BadMonotonicRequest_gt(req) ==
    req.tv_sec < 0 \/ req.tv_nsec < 0 \/ req.tv_nsec > POW10_9

\* the request check of the CLOCK_MONOTONIC case
BadMonotonicRequest(req) ==
    req.tv_sec < 0 \/ req.tv_nsec < 0 \/ req.tv_nsec >= POW10_9

\* tp after the CLOCK_REALTIME TIMER_ABSTIME subtraction
RealtimeDelta(req, tp) ==
    LET sec  == req.tv_sec - tp.tv_sec
        nsec == req.tv_nsec - tp.tv_nsec
    IN  IF nsec < 0 THEN TimeSpec(sec - 1, nsec + POW10_9)
                    ELSE TimeSpec(sec, nsec)

\* mutant: the clamp of a negative difference left out
RemainOf_noclamp(req, el) ==
    timersub(req, el)

\* *remain as stored at the end of the CLOCK_MONOTONIC case
RemainOf(req, el) ==
    LET r == timersub(req, el)
    IN  IF r.tv_sec < 0 THEN TimeSpec(0, 0) ELSE r

(***************************************************************************)
(* realpath (src/symlink.c): constants, domains and helpers                *)
(***************************************************************************)
ERROR_FILE_NOT_FOUND == 2

ERROR_PATH_NOT_FOUND == 3

ERROR_ACCESS_DENIED == 5

ERROR_INVALID_HANDLE == 6

ERROR_NOT_ENOUGH_MEMORY == 8

ERROR_NOT_SAME_DEVICE == 17

ERROR_FILE_EXISTS == 80

ERROR_ALREADY_EXISTS == 183

EPERM == 1

ENOENT == 2

EIO == 5

ENOMEM == 12

EACCES == 13

EEXIST == 17

ENAMETOOLONG == 38

\* errno as wctomb leaves it for a character the locale cannot convert
EILSEQ == 42

INVALID_HANDLE_VALUE == -1

PATH_MAX == 260

\* values of GetLastError() after a failed CreateFile or
\* GetFinalPathNameByHandleA
LastErrors == {ERROR_FILE_NOT_FOUND, ERROR_PATH_NOT_FOUND, ERROR_ACCESS_DENIED,
               ERROR_INVALID_HANDLE, ERROR_NOT_ENOUGH_MEMORY,
               ERROR_NOT_SAME_DEVICE, ERROR_FILE_EXISTS, ERROR_ALREADY_EXISTS}

\* the "\\?\" prefix of a final path name
LongPathPrefix == <<"\\", "\\", "?", "\\">>

\* final path names GetFinalPathNameByHandleA can report
FinalNames == {LongPathPrefix \o <<"C", ":", "\\", "a">>,
               LongPathPrefix \o <<"C", ":", "\\">>,
               <<"C", ":", "\\", "a">>}

\* fn after malloc() returned NULL
NullPtr == <<"NULL">>

\* stands for a run of one or more bytes none of which is NUL and which
\* does not begin with LongPathPrefix: what the memory happened to hold
AnyBytes == "<bytes>"

\* ends a content that has no NUL within the s bytes of the buffer: the
\* string runs on into the memory behind it
NoNul == "<no NUL within s>"

\* content of a buffer GetFinalPathNameByHandleA did not fill: the buffer is
\* read uninitialized, so it holds any bytes, beginning with the prefix or
\* not, terminated inside the buffer or not
Unfilled == {<<>>,
             <<AnyBytes>>,
             LongPathPrefix,
             LongPathPrefix \o <<AnyBytes>>,
             <<AnyBytes, NoNul>>,
             LongPathPrefix \o <<AnyBytes, NoNul>>}

\* the string at fn is not terminated inside its buffer
Unterminated(name) == Len(name) > 0 /\ name[Len(name)] = NoNul

NoPathCalls == [open |-> 0, size |-> 0, get |-> 0, close |-> 0]

NoResult == [ptr |-> "none", str |-> <<>>]

\* the file-type bits of st_mode, each a bit of its own in <sys/stat.h>
ModeBits == {"S_IFIFO", "S_IFCHR", "S_IFDIR", "S_IFREG"}

\* the mask of the file-type field of st_mode
S_IFMT == ModeBits

S_IFDIR == {"S_IFDIR"}

S_IFREG == {"S_IFREG"}

\* #define S_IFLNK (S_IFREG | S_IFCHR)
S_IFLNK == {"S_IFREG", "S_IFCHR"}

\* st_mode of what stat and _stat64 found: a directory or a regular file
StatModes == {S_IFDIR, S_IFREG}

\* errno as stat and _stat64 leave it when they fail
StatErrnos == {ENOENT, EINVAL}

\* PrintNameLength of the reparse data, in bytes
PrintNameLengths == {0, 2, 6}

\* bufsiz of the caller of readlink
BufSizes == {0, 1, 2, 4}

\* number of bytes wctomb stores at &buf[i] for one character: one in a
\* single-byte locale, up to MB_CUR_MAX in a multibyte one
MbWidths == {1, 2, 3, 4}

\* #define S_ISDIR(m) (((m) & S_IFMT) == S_IFDIR)
S_ISDIR(mode) == (mode \cap S_IFMT) = S_IFDIR

\* dwflags of CreateSymbolicLinkA
SymlinkFlags(mode) ==
    {"SYMBOLIC_LINK_FLAG_ALLOW_UNPRIVILEGED_CREATE"}
        \cup (IF S_ISDIR(mode)
               THEN {"SYMBOLIC_LINK_FLAG_DIRECTORY"}
               ELSE {})

\* min(len, bufsiz-1): bufsiz is a size_t, so bufsiz-1 is SIZE_MAX for
\* bufsiz = 0 and the minimum is len
CopyCount(len, bufsiz) ==
    IF bufsiz = 0
    THEN len
    ELSE IF len < bufsiz - 1 THEN len ELSE bufsiz - 1

\* what a call of readlink, isSymLink, lstat, symlink or link left: its
\* result, the handles it opened and closed, the st_mode it stored, whether
\* it wrote past the caller's buffer, the flags it created a link with
NoOp == [name |-> "none", ret |-> 0, opens |-> 0, closes |-> 0,
         mode |-> {}, overrun |-> FALSE, dwflags |-> {}]

Returned(name, ret) == [NoOp EXCEPT !.name = name, !.ret = ret]

\* errno chosen by setErrno() for GetLastError() = err
setErrno(err) ==
    CASE err = ERROR_FILE_NOT_FOUND    -> ENOENT
      [] err = ERROR_ACCESS_DENIED     -> EACCES
      [] err = ERROR_ALREADY_EXISTS    -> EEXIST
      [] err = ERROR_FILE_EXISTS       -> EEXIST
      [] err = ERROR_PATH_NOT_FOUND    -> ENAMETOOLONG
      [] err = ERROR_NOT_ENOUGH_MEMORY -> ENOMEM
      [] err = ERROR_NOT_SAME_DEVICE   -> EPERM
      [] OTHER                         -> EIO

\* fn after: if (s && !memcmp(fn, "\\\\?\\", 4)) memcpy(fn, fn+4, strlen(fn)+1)
StripPrefix(s, name) ==
    IF s # 0 /\ Len(name) >= 4 /\ SubSeq(name, 1, 4) = LongPathPrefix
    THEN SubSeq(name, 5, Len(name))
    ELSE name

\* memcpy(fn, fn+4, strlen(fn)+1) reads the bytes 4 .. strlen(fn)+4 of fn:
\* it reads behind the s bytes of the buffer when strlen(fn)+1+4 > s. The
\* length of leftover bytes is not known, so they may reach that far
ReadsPast(s, name) ==
    /\ s # 0
    /\ Len(name) >= 4
    /\ SubSeq(name, 1, 4) = LongPathPrefix
    /\ \/ \E k \in 1..Len(name) : name[k] = AnyBytes
       \/ Len(name) + 1 + 4 > s

PathIdle ==
    /\ rpc = "idle"
    /\ resolved = FALSE
    /\ hPath = 0
    /\ finalName = <<>>
    /\ sz = 0
    /\ fn = <<>>
    /\ rpResult = NoResult
    /\ pathErrno = 0
    /\ fileHandles = 0
    /\ pathCalls = NoPathCalls
    /\ nPathCalls = 0
    /\ op = NoOp
    /\ searchHandles = 0

(***************************************************************************)
(* Initial state: no call made yet                                         *)
(***************************************************************************)
CallInit ==
    /\ pc = "idle"
    /\ clock_id = CLOCK_REALTIME
    /\ flags = 0
    /\ request = NoTime
    /\ hasRemain = FALSE
    /\ remain = Garbage
    /\ remainWrites = 0
    /\ liDueTime = [q |-> 0, r |-> 0]
    /\ timerCreateFlags = 0
    /\ hTimer = 0
    /\ then = NoTime
    /\ now = NoTime
    /\ elapsed = NoTime
    /\ retval = 0
    /\ st = WAIT_OBJECT_0
    /\ result = 0
    /\ errno = 0
    /\ mono = NoTime
    /\ openHandles = 0
    /\ calls = NoCalls
    /\ total = [create |-> 0, created |-> 0, close |-> 0]
    /\ sleepArgs = NoSleep
    /\ sleepRet = 0
    /\ armCall = NoArm
    /\ nCalls = 0

ArithIdle ==
    /\ ta = NoTime
    /\ tb = NoTime
    /\ tc = NoTime
    /\ td = NoTime
    /\ apc = "none"

Init == CallInit /\ ArithIdle /\ PathIdle

(***************************************************************************)
(* clock_nanosleep, one action per step                                    *)
(***************************************************************************)
\* a caller enters clock_nanosleep(id, fl, &req, rem)
Call ==
    /\ pc \in {"idle", "done"}
    /\ nCalls < MaxCalls
    /\ \E id \in ClockIds, fl \in FlagVals, req \in Requests, rem \in BOOLEAN :
         /\ clock_id' = id
         /\ flags' = fl
         /\ request' = req
         /\ hasRemain' = rem
    /\ pc' = "switch"
    /\ nCalls' = nCalls + 1
    /\ remainWrites' = 0
    /\ calls' = NoCalls
    /\ liDueTime' = [q |-> 0, r |-> 0]
    /\ timerCreateFlags' = 0
    /\ hTimer' = 0
    /\ then' = NoTime
    /\ now' = NoTime
    /\ elapsed' = NoTime
    /\ retval' = 0
    /\ st' = WAIT_OBJECT_0
    /\ sleepArgs' = NoSleep
    /\ sleepRet' = 0
    /\ armCall' = NoArm
    /\ remain' = Garbage
    /\ result' = 0
    /\ UNCHANGED <<errno, mono, openHandles, total>>
    /\ UNCHANGED arithVars
    /\ UNCHANGED pathVars

\* mutant: the relative case also goes through the clock read and the
\* subtraction
RealtimeRelative_viaClock ==
    /\ pc = "switch"
    /\ clock_id = CLOCK_REALTIME
    /\ flags = 0
    /\ \E tp \in ClockVals :
         sleepArgs' = [req |-> RealtimeDelta(request, tp), rem |-> hasRemain]
    /\ calls' = [calls EXCEPT !.clock = @ + 1]
    /\ pc' = "nanosleep"
    /\ UNCHANGED <<clock_id, flags, request, hasRemain, remain, remainWrites,
                   liDueTime, timerCreateFlags, hTimer, then, now, elapsed,
                   retval, st, result, errno, mono, openHandles, total,
                   sleepRet, nCalls>>
    /\ UNCHANGED armCall
    /\ UNCHANGED arithVars
    /\ UNCHANGED pathVars

\* case CLOCK_REALTIME, flags == 0: nanosleep(request, remain) is called
RealtimeRelative ==
    /\ pc = "switch"
    /\ clock_id = CLOCK_REALTIME
    /\ flags = 0
    /\ sleepArgs' = [req |-> request, rem |-> hasRemain]
    /\ pc' = "nanosleep"
    /\ UNCHANGED <<clock_id, flags, request, hasRemain, remain, remainWrites,
                   liDueTime, timerCreateFlags, hTimer, then, now, elapsed,
                   retval, st, result, errno, mono, openHandles, calls, total,
                   sleepRet, nCalls>>
    /\ UNCHANGED armCall
    /\ UNCHANGED arithVars
    /\ UNCHANGED pathVars

\* case CLOCK_REALTIME, flags != 0: clock_gettime(CLOCK_REALTIME, &tp), the
\* subtraction, and nanosleep(&tp, remain) is called
RealtimeAbsolute ==
    /\ pc = "switch"
    /\ clock_id = CLOCK_REALTIME
    /\ flags # 0
    /\ \E tp \in ClockVals :
         sleepArgs' = [req |-> RealtimeDelta(request, tp), rem |-> hasRemain]
    /\ calls' = [calls EXCEPT !.clock = @ + 1]
    /\ pc' = "nanosleep"
    /\ UNCHANGED <<clock_id, flags, request, hasRemain, remain, remainWrites,
                   liDueTime, timerCreateFlags, hTimer, then, now, elapsed,
                   retval, st, result, errno, mono, openHandles, total,
                   sleepRet, nCalls>>
    /\ UNCHANGED armCall
    /\ UNCHANGED arithVars
    /\ UNCHANGED pathVars

\* nanosleep() returns 0, or -1 with errno EINVAL, or -1 with errno EINTR
\* and the unslept time stored through a non-NULL remain; clock_nanosleep
\* returns that value
NanosleepReturn ==
    /\ pc = "nanosleep"
    /\ calls' = [calls EXCEPT !.sleep = @ + 1]
    /\ \/ /\ sleepRet' = 0
          /\ UNCHANGED <<errno, remain, remainWrites>>
       \/ /\ sleepRet' = -1
          /\ errno' = EINVAL
          /\ UNCHANGED <<remain, remainWrites>>
       \/ /\ sleepRet' = -1
          /\ errno' = EINTR
          /\ IF sleepArgs.rem
             THEN /\ \E left \in ClockVals :
                       /\ TimeLE(left, sleepArgs.req)
                       /\ remain' = left
                  /\ remainWrites' = remainWrites + 1
             ELSE UNCHANGED <<remain, remainWrites>>
    /\ result' = sleepRet'
    /\ pc' = "done"
    /\ UNCHANGED <<clock_id, flags, request, hasRemain, liDueTime,
                   timerCreateFlags, hTimer, then, now, elapsed, retval, st,
                   mono, openHandles, total, sleepArgs, nCalls>>
    /\ UNCHANGED armCall
    /\ UNCHANGED arithVars
    /\ UNCHANGED pathVars

\* case CLOCK_MONOTONIC with a bad request: return lc_set_errno(EINVAL)
MonotonicInvalid ==
    /\ pc = "switch"
    /\ clock_id = CLOCK_MONOTONIC
    /\ BadMonotonicRequest(request)
    /\ result' = lc_set_errno(EINVAL, errno).ret
    /\ errno' = lc_set_errno(EINVAL, errno).err
    /\ pc' = "done"
    /\ UNCHANGED <<clock_id, flags, request, hasRemain, remain, remainWrites,
                   liDueTime, timerCreateFlags, hTimer, then, now, elapsed,
                   retval, st, mono, openHandles, calls, total, sleepArgs,
                   sleepRet, nCalls>>
    /\ UNCHANGED armCall
    /\ UNCHANGED arithVars
    /\ UNCHANGED pathVars

\* default: return lc_set_errno(EINVAL)
DefaultInvalid ==
    /\ pc = "switch"
    /\ clock_id # CLOCK_REALTIME
    /\ clock_id # CLOCK_MONOTONIC
    /\ result' = lc_set_errno(EINVAL, errno).ret
    /\ errno' = lc_set_errno(EINVAL, errno).err
    /\ pc' = "done"
    /\ UNCHANGED <<clock_id, flags, request, hasRemain, remain, remainWrites,
                   liDueTime, timerCreateFlags, hTimer, then, now, elapsed,
                   retval, st, mono, openHandles, calls, total, sleepArgs,
                   sleepRet, nCalls>>
    /\ UNCHANGED armCall
    /\ UNCHANGED arithVars
    /\ UNCHANGED pathVars

\* case CLOCK_MONOTONIC with a good request: liDueTime is computed
MonotonicDue ==
    /\ pc = "switch"
    /\ clock_id = CLOCK_MONOTONIC
    /\ ~BadMonotonicRequest(request)
    /\ liDueTime' = DueTime(request, flags)
    /\ pc' = "probe"
    /\ UNCHANGED <<clock_id, flags, request, hasRemain, remain, remainWrites,
                   timerCreateFlags, hTimer, then, now, elapsed, retval, st,
                   result, errno, mono, openHandles, calls, total, sleepArgs,
                   sleepRet, nCalls>>
    /\ UNCHANGED armCall
    /\ UNCHANGED arithVars
    /\ UNCHANGED pathVars

\* haveHighResTimer() chooses timerCreateFlags
Probe ==
    /\ pc = "probe"
    /\ \E s \in {0, 2}, curVer \in BuildNumbers :
         timerCreateFlags' = IF haveHighResTimer(s, curVer)
                             THEN CREATE_WAITABLE_TIMER_HIGH_RESOLUTION
                             ELSE CREATE_WAITABLE_TIMER_MANUAL_RESET
    /\ calls' = [calls EXCEPT !.probe = @ + 1]
    /\ pc' = "create"
    /\ UNCHANGED <<clock_id, flags, request, hasRemain, remain, remainWrites,
                   liDueTime, hTimer, then, now, elapsed, retval, st, result,
                   errno, mono, openHandles, total, sleepArgs, sleepRet,
                   nCalls>>
    /\ UNCHANGED armCall
    /\ UNCHANGED arithVars
    /\ UNCHANGED pathVars

\* CreateWaitableTimerEx() returns a handle
CreateOk ==
    /\ pc = "create"
    /\ hTimer' = 1
    /\ openHandles' = openHandles + 1
    /\ calls' = [calls EXCEPT !.create = @ + 1]
    /\ total' = [total EXCEPT !.create = @ + 1, !.created = @ + 1]
    /\ pc' = "then"
    /\ UNCHANGED <<clock_id, flags, request, hasRemain, remain, remainWrites,
                   liDueTime, timerCreateFlags, then, now, elapsed, retval, st,
                   result, errno, mono, sleepArgs, sleepRet, nCalls>>
    /\ UNCHANGED armCall
    /\ UNCHANGED arithVars
    /\ UNCHANGED pathVars

\* CreateWaitableTimerEx() returns NULL: return lc_set_errno(ENOTSUP)
CreateFail ==
    /\ pc = "create"
    /\ hTimer' = 0
    /\ calls' = [calls EXCEPT !.create = @ + 1]
    /\ total' = [total EXCEPT !.create = @ + 1]
    /\ result' = lc_set_errno(ENOTSUP, errno).ret
    /\ errno' = lc_set_errno(ENOTSUP, errno).err
    /\ pc' = "done"
    /\ UNCHANGED <<clock_id, flags, request, hasRemain, remain, remainWrites,
                   liDueTime, timerCreateFlags, then, now, elapsed, retval, st,
                   mono, openHandles, sleepArgs, sleepRet, nCalls>>
    /\ UNCHANGED armCall
    /\ UNCHANGED arithVars
    /\ UNCHANGED pathVars

\* if (remain) clock_gettime(CLOCK_MONOTONIC, &then)
ReadThen ==
    /\ pc = "then"
    /\ IF hasRemain
       THEN /\ \E t \in ClockVals :
                 /\ TimeLE(mono, t)
                 /\ then' = t
                 /\ mono' = t
            /\ calls' = [calls EXCEPT !.clock = @ + 1]
       ELSE UNCHANGED <<then, mono, calls>>
    /\ pc' = "arm"
    /\ UNCHANGED <<clock_id, flags, request, hasRemain, remain, remainWrites,
                   liDueTime, timerCreateFlags, hTimer, now, elapsed, retval,
                   st, result, errno, openHandles, total, sleepArgs, sleepRet,
                   nCalls>>
    /\ UNCHANGED armCall
    /\ UNCHANGED arithVars
    /\ UNCHANGED pathVars

\* SetWaitableTimer() succeeds
ArmOk ==
    /\ pc = "arm"
    /\ calls' = [calls EXCEPT !.arm = @ + 1]
    /\ armCall' = [due |-> liDueTime, ok |-> TRUE]
    /\ pc' = "wait"
    /\ UNCHANGED <<clock_id, flags, request, hasRemain, remain, remainWrites,
                   liDueTime, timerCreateFlags, hTimer, then, now, elapsed,
                   retval, st, result, errno, mono, openHandles, total,
                   sleepArgs, sleepRet, nCalls>>
    /\ UNCHANGED arithVars
    /\ UNCHANGED pathVars

\* mutant: the arming failure returns without CloseHandle()
ArmFail_leak ==
    /\ pc = "arm"
    /\ calls' = [calls EXCEPT !.arm = @ + 1]
    /\ armCall' = [due |-> liDueTime, ok |-> FALSE]
    /\ retval' = lc_set_errno(ENOTSUP, errno).ret
    /\ errno' = lc_set_errno(ENOTSUP, errno).err
    /\ pc' = "remain"
    /\ UNCHANGED <<clock_id, flags, request, hasRemain, remain, remainWrites,
                   liDueTime, timerCreateFlags, hTimer, then, now, elapsed, st,
                   result, mono, openHandles, total, sleepArgs, sleepRet,
                   nCalls>>
    /\ UNCHANGED arithVars
    /\ UNCHANGED pathVars

\* SetWaitableTimer() fails: retval = lc_set_errno(ENOTSUP)
ArmFail ==
    /\ pc = "arm"
    /\ calls' = [calls EXCEPT !.arm = @ + 1]
    /\ armCall' = [due |-> liDueTime, ok |-> FALSE]
    /\ retval' = lc_set_errno(ENOTSUP, errno).ret
    /\ errno' = lc_set_errno(ENOTSUP, errno).err
    /\ pc' = "close"
    /\ UNCHANGED <<clock_id, flags, request, hasRemain, remain, remainWrites,
                   liDueTime, timerCreateFlags, hTimer, then, now, elapsed, st,
                   result, mono, openHandles, total, sleepArgs, sleepRet,
                   nCalls>>
    /\ UNCHANGED arithVars
    /\ UNCHANGED pathVars

\* mutant: the status of the wait is not tested
Wait_unchecked ==
    /\ pc = "wait"
    /\ \E w \in WaitOutcomes : st' = w
    /\ calls' = [calls EXCEPT !.wait = @ + 1]
    /\ pc' = "close"
    /\ UNCHANGED <<clock_id, flags, request, hasRemain, remain, remainWrites,
                   liDueTime, timerCreateFlags, hTimer, then, now, elapsed,
                   retval, errno, result, mono, openHandles, total, sleepArgs,
                   sleepRet, nCalls>>
    /\ UNCHANGED armCall
    /\ UNCHANGED arithVars
    /\ UNCHANGED pathVars

\* WaitForSingleObject(hTimer, INFINITE) returns w
Wait ==
    /\ pc = "wait"
    /\ \E w \in WaitOutcomes :
         /\ st' = w
         /\ IF w # WAIT_OBJECT_0
            THEN /\ retval' = lc_set_errno(ENOTSUP, errno).ret
                 /\ errno' = lc_set_errno(ENOTSUP, errno).err
            ELSE UNCHANGED <<retval, errno>>
    /\ calls' = [calls EXCEPT !.wait = @ + 1]
    /\ pc' = "close"
    /\ UNCHANGED <<clock_id, flags, request, hasRemain, remain, remainWrites,
                   liDueTime, timerCreateFlags, hTimer, then, now, elapsed,
                   result, mono, openHandles, total, sleepArgs, sleepRet,
                   nCalls>>
    /\ UNCHANGED armCall
    /\ UNCHANGED arithVars
    /\ UNCHANGED pathVars

\* CloseHandle(hTimer)
Close ==
    /\ pc = "close"
    /\ openHandles' = openHandles - 1
    /\ calls' = [calls EXCEPT !.close = @ + 1]
    /\ total' = [total EXCEPT !.close = @ + 1]
    /\ pc' = "remain"
    /\ UNCHANGED <<clock_id, flags, request, hasRemain, remain, remainWrites,
                   liDueTime, timerCreateFlags, hTimer, then, now, elapsed,
                   retval, st, result, errno, mono, sleepArgs, sleepRet,
                   nCalls>>
    /\ UNCHANGED armCall
    /\ UNCHANGED arithVars
    /\ UNCHANGED pathVars

\* mutant: *remain is stored only when the wait succeeded
RemainAndReturn_onSuccess ==
    /\ pc = "remain"
    /\ IF hasRemain /\ retval = 0
       THEN /\ \E t \in ClockVals :
                 /\ TimeLE(mono, t)
                 /\ now' = t
                 /\ mono' = t
            /\ elapsed' = timersub(now', then)
            /\ remain' = RemainOf(request, elapsed')
            /\ remainWrites' = remainWrites + 1
            /\ calls' = [calls EXCEPT !.clock = @ + 1]
       ELSE UNCHANGED <<now, mono, elapsed, remain, remainWrites, calls>>
    /\ result' = retval
    /\ pc' = "done"
    /\ UNCHANGED <<clock_id, flags, request, hasRemain, liDueTime,
                   timerCreateFlags, hTimer, then, retval, st, errno,
                   openHandles, total, sleepArgs, sleepRet, nCalls>>
    /\ UNCHANGED armCall
    /\ UNCHANGED arithVars
    /\ UNCHANGED pathVars

\* if (remain) { clock_gettime; timersub; timersub; clamp }  return retval
RemainAndReturn ==
    /\ pc = "remain"
    /\ IF hasRemain
       THEN /\ \E t \in ClockVals :
                 /\ TimeLE(mono, t)
                 /\ now' = t
                 /\ mono' = t
            /\ elapsed' = timersub(now', then)
            /\ remain' = RemainOf(request, elapsed')
            /\ remainWrites' = remainWrites + 1
            /\ calls' = [calls EXCEPT !.clock = @ + 1]
       ELSE UNCHANGED <<now, mono, elapsed, remain, remainWrites, calls>>
    /\ result' = retval
    /\ pc' = "done"
    /\ UNCHANGED <<clock_id, flags, request, hasRemain, liDueTime,
                   timerCreateFlags, hTimer, then, retval, st, errno,
                   openHandles, total, sleepArgs, sleepRet, nCalls>>
    /\ UNCHANGED armCall
    /\ UNCHANGED arithVars
    /\ UNCHANGED pathVars

Next ==
    \/ Call
    \/ RealtimeRelative
    \/ RealtimeAbsolute
    \/ NanosleepReturn
    \/ MonotonicInvalid
    \/ DefaultInvalid
    \/ MonotonicDue
    \/ Probe
    \/ CreateOk
    \/ CreateFail
    \/ ReadThen
    \/ ArmOk
    \/ ArmFail
    \/ Wait
    \/ Close
    \/ RemainAndReturn

Spec == Init /\ [][Next]_vars

(***************************************************************************)
(* The timespec helpers on their own: operands of either sign              *)
(***************************************************************************)
ArithInit ==
    /\ CallInit
    /\ PathIdle
    /\ ta \in ArithVals
    /\ tb \in ArithVals
    /\ tc = NoTime
    /\ td = NoTime
    /\ apc = "none"

\* timersub(&tc, &ta, &tb)
Subtract ==
    /\ apc = "none"
    /\ tc' = timersub(ta, tb)
    /\ apc' = "sub"
    /\ UNCHANGED <<ta, tb, td>>
    /\ UNCHANGED callVars
    /\ UNCHANGED pathVars

\* timeradd(&tc, &ta, &tb)
Add ==
    /\ apc = "none"
    /\ tc' = timeradd(ta, tb)
    /\ apc' = "add"
    /\ UNCHANGED <<ta, tb, td>>
    /\ UNCHANGED callVars
    /\ UNCHANGED pathVars

\* timeradd(&td, &tc, &tb) on the difference tc = ta - tb
AddBack ==
    /\ apc = "sub"
    /\ td' = timeradd(tc, tb)
    /\ apc' = "back"
    /\ UNCHANGED <<ta, tb, tc>>
    /\ UNCHANGED callVars
    /\ UNCHANGED pathVars

ArithNext ==
    \/ Subtract
    \/ Add
    \/ AddBack

ArithSpec == ArithInit /\ [][ArithNext]_vars

(***************************************************************************)
(* Properties of clock_nanosleep                                           *)
(***************************************************************************)
\* (ds, dn) stands for ds seconds plus dn nanoseconds, |dn| < 2 * POW10_9:
\* whether that amount is >= 0
NonNegative(ds, dn) ==
    \/ ds >= 2
    \/ ds = 1 /\ dn >= -POW10_9
    \/ ds = 0 /\ dn >= 0
    \/ ds = -1 /\ dn >= POW10_9

\* the arguments of the current call are ones the function must reject
RejectedArgs ==
    \/ clock_id \notin {CLOCK_REALTIME, CLOCK_MONOTONIC}
    \/ /\ clock_id = CLOCK_MONOTONIC
       /\ \/ request.tv_sec < 0
          \/ request.tv_nsec < 0
          \/ request.tv_nsec >= POW10_9

\* the current call took the CLOCK_MONOTONIC case with an accepted request
MonotonicCall ==
    /\ clock_id = CLOCK_MONOTONIC
    /\ request.tv_sec >= 0
    /\ request.tv_nsec >= 0
    /\ request.tv_nsec < POW10_9

\* C1: a call with a clock other than CLOCK_REALTIME/CLOCK_MONOTONIC, or with
\* CLOCK_MONOTONIC and a request with tv_sec < 0, tv_nsec < 0 or
\* tv_nsec >= 10^9, returns -1 with errno EINVAL straight from the switch:
\* no probe, no timer creation, no clock read, no sleep, *remain not written.
C1_InvalidArgument ==
    (nCalls > 0 /\ pc # "switch" /\ RejectedArgs) =>
        /\ pc = "done"
        /\ result = -1
        /\ errno = EINVAL
        /\ calls = NoCalls
        /\ remainWrites = 0
        /\ remain = Garbage
        /\ hTimer = 0
        /\ armCall = NoArm

C1_Witness ==
    /\ pc = "done"
    /\ clock_id = CLOCK_MONOTONIC
    /\ flags = TIMER_ABSTIME
    /\ request = TimeSpec(1, POW10_9)
    /\ hasRemain
    /\ result = -1
    /\ errno = EINVAL

\* C2 as claimed: between calls, CreateWaitableTimerEx() has been invoked as
\* often as CloseHandle().
C2_CreateCallsEqualCloseCalls ==
    pc \in {"idle", "done"} => total.create = total.close

\* C2 amended: every handle CreateWaitableTimerEx() returned is closed exactly
\* once before the call returns, on the arming-failure, wait-failure and
\* success paths; a call whose creation failed has no handle and does not
\* invoke CloseHandle().
C2_HandleReleasedOnce ==
    /\ calls.close <= 1
    /\ openHandles = (IF hTimer # 0 /\ calls.close = 0 THEN 1 ELSE 0)
    /\ pc \in {"idle", "done"} =>
          /\ openHandles = 0
          /\ total.created = total.close
          /\ calls.close = (IF hTimer # 0 THEN 1 ELSE 0)
          /\ (calls.create = 1 /\ hTimer = 0) => calls.close = 0

C2_Witness ==
    /\ pc = "done"
    /\ nCalls = 2
    /\ total.create = 2
    /\ total.created = 1
    /\ total.close = 1
    /\ calls.arm = 1
    /\ ~armCall.ok
    /\ calls.close = 1
    /\ result = -1

\* C3: whenever a CLOCK_MONOTONIC call stores *remain, the stored value has
\* tv_sec >= 0 and 0 <= tv_nsec < 10^9, and it is {0, 0} whenever the time
\* between the two clock reads (now - then) is at least the request.
C3_RemainClamped ==
    (pc = "done" /\ MonotonicCall /\ remainWrites > 0) =>
        /\ remain.tv_sec >= 0
        /\ remain.tv_nsec >= 0
        /\ remain.tv_nsec < POW10_9
        /\ NonNegative(now.tv_sec - then.tv_sec - request.tv_sec,
                       now.tv_nsec - then.tv_nsec - request.tv_nsec)
              => remain = TimeSpec(0, 0)

C3_Witness ==
    /\ pc = "done"
    /\ MonotonicCall
    /\ flags = 0
    /\ remainWrites = 1
    /\ request = TimeSpec(0, 100)
    /\ then = TimeSpec(0, POW10_9 - 1)
    /\ now = TimeSpec(1, 99)
    /\ result = 0
    /\ remain = TimeSpec(0, 0)

\* C4 as claimed: a CLOCK_MONOTONIC call stores *remain only when the timer
\* was armed and the wait returned WAIT_OBJECT_0.
C4_RemainOnlyWhenSignaled ==
    (pc = "done" /\ MonotonicCall /\ remainWrites > 0) =>
        /\ armCall.ok
        /\ calls.wait = 1
        /\ st = WAIT_OBJECT_0

\* C4 amended: a CLOCK_MONOTONIC call stores *remain exactly once whenever
\* remain is not NULL and the timer handle was created, whether or not the
\* arming and the wait succeeded; *remain is left unchanged only when the
\* timer could not be created (or remain is NULL).
C4_RemainWhenTimerCreated ==
    (pc = "done" /\ MonotonicCall) =>
        /\ remainWrites = (IF hasRemain /\ hTimer # 0 THEN 1 ELSE 0)
        /\ remainWrites = 0 => remain = Garbage

C4_Witness ==
    /\ pc = "done"
    /\ MonotonicCall
    /\ hasRemain
    /\ calls.arm = 1
    /\ ~armCall.ok
    /\ calls.wait = 0
    /\ result = -1
    /\ remainWrites = 1
    /\ remain # Garbage

\* C5 as claimed: a CLOCK_MONOTONIC, TIMER_ABSTIME call whose deadline was
\* already reached when the clock was read before arming, and whose timer
\* was created, armed and signaled, returns 0 with *remain = {0, 0}.
C5_ElapsedDeadlineRemainZero ==
    ( /\ pc = "done"
      /\ MonotonicCall
      /\ flags = TIMER_ABSTIME
      /\ hasRemain
      /\ hTimer # 0
      /\ armCall.ok
      /\ calls.wait = 1
      /\ st = WAIT_OBJECT_0
      /\ TimeLE(request, then) ) =>
        /\ result = 0
        /\ remain = TimeSpec(0, 0)

C5_Reached ==
    /\ pc = "done"
    /\ MonotonicCall
    /\ flags = TIMER_ABSTIME
    /\ hasRemain
    /\ TimeLE(request, then)
    /\ result = 0

(***************************************************************************)
(* Properties of the timespec helpers (under ArithSpec)                    *)
(***************************************************************************)
\* C6: for operands with 0 <= tv_nsec < 10^9 and tv_sec of either sign, the
\* result of timersub and of timeradd has 0 <= tv_nsec < 10^9.
C6_ResultNormalized ==
    apc \in {"sub", "add"} => (tc.tv_nsec >= 0 /\ tc.tv_nsec < POW10_9)

C6_Witness ==
    /\ apc = "add"
    /\ ta.tv_sec < 0
    /\ tb.tv_sec > 0
    /\ ta.tv_nsec + tb.tv_nsec = POW10_9
    /\ tc.tv_nsec = 0

\* C7: for normalized a and b, timeradd(timersub(a, b), b) is a again, in
\* tv_sec and in tv_nsec.
C7_RoundTrip ==
    apc = "back" => (td.tv_sec = ta.tv_sec /\ td.tv_nsec = ta.tv_nsec)

C7_Witness ==
    /\ apc = "back"
    /\ ta.tv_nsec < tb.tv_nsec
    /\ ta.tv_sec < 0
    /\ tc.tv_sec = ta.tv_sec - tb.tv_sec - 1
    /\ td = ta

(***************************************************************************)
(* Properties of clock_nanosleep, continued                                *)
(***************************************************************************)
\* C8: a CLOCK_REALTIME call with flags = 0 invokes nanosleep() once, with
\* the caller's request and remain, returns what nanosleep() returned, and
\* makes no probe, no clock read and no timer creation.
C8_RelativeDelegation ==
    (nCalls > 0 /\ clock_id = CLOCK_REALTIME /\ flags = 0) =>
        /\ pc \in {"switch", "nanosleep", "done"}
        /\ calls.probe = 0
        /\ calls.clock = 0
        /\ calls.create = 0
        /\ hTimer = 0
        /\ pc # "switch" => sleepArgs = [req |-> request, rem |-> hasRemain]
        /\ pc = "nanosleep" => calls.sleep = 0
        /\ pc = "done" => (calls.sleep = 1 /\ result = sleepRet)

C8_Witness ==
    /\ pc = "done"
    /\ clock_id = CLOCK_REALTIME
    /\ flags = 0
    /\ request = TimeSpec(1, 100)
    /\ hasRemain
    /\ calls.sleep = 1
    /\ result = -1
    /\ errno = EINTR
    /\ remain = TimeSpec(0, 99)

\* C9: in a CLOCK_MONOTONIC call with an accepted request, create, arm and
\* wait are each invoked at most once, arm is not invoked after a failed
\* creation nor wait after a failed arming; when creation, arming or the
\* wait fails the call returns -1 with errno ENOTSUP, and it returns 0
\* exactly when all three succeeded.
C9_TimerFailureNotSupported ==
    MonotonicCall =>
        /\ calls.create <= 1
        /\ calls.arm <= 1
        /\ calls.wait <= 1
        /\ (calls.arm = 1) => hTimer # 0
        /\ (calls.wait = 1) => armCall.ok
        /\ pc = "done" =>
              LET allOk == /\ hTimer # 0
                           /\ armCall.ok
                           /\ calls.wait = 1
                           /\ st = WAIT_OBJECT_0
              IN  /\ calls.create = 1
                  /\ hTimer # 0 => calls.arm = 1
                  /\ armCall.ok => calls.wait = 1
                  /\ result = 0 <=> allOk
                  /\ ~allOk => (result = -1 /\ errno = ENOTSUP)

C9_Witness ==
    /\ pc = "done"
    /\ MonotonicCall
    /\ calls.create = 1
    /\ calls.arm = 1
    /\ calls.wait = 1
    /\ st = WAIT_FAILED
    /\ result = -1
    /\ errno = ENOTSUP

\* T = floor((tv_sec * 10^9 + tv_nsec) / 100), written so that no
\* intermediate value exceeds the integers of the model checker
TicksOf(req) == req.tv_sec * (POW10_9 \div 100) + req.tv_nsec \div 100

\* the due time passed to SetWaitableTimer() in the current call is -T
DueIsMinusTicks ==
    armCall.due.q * POW10_9 + armCall.due.r = -TicksOf(request)

\* the due time passed to SetWaitableTimer() is T + DELTA_EPOCH_IN_100NS
DueIsTicksPlusEpoch ==
    /\ armCall.due.q - 116444736 \in {0, 1}
    /\ (armCall.due.q - 116444736) * POW10_9 + armCall.due.r
          = TicksOf(request)

DueNegative == armCall.due.q < 0

DuePositive == armCall.due.q > 0 \/ (armCall.due.q = 0 /\ armCall.due.r > 0)

\* C10 as claimed: the timer is armed with -T when flags = 0 and with
\* T + 116444736000000000 otherwise; the former is negative, the latter
\* positive.
C10_DueSigns ==
    (MonotonicCall /\ calls.arm = 1) =>
        IF flags = 0 THEN DueIsMinusTicks /\ DueNegative
                     ELSE DueIsTicksPlusEpoch /\ DuePositive

\* C10 amended: the timer is armed with -T when flags = 0 and with
\* T + 116444736000000000 otherwise; the latter is positive; the former is
\* negative when T > 0 and is 0 when T = 0, that is for a request shorter
\* than 100 ns.
C10_DueValue ==
    (MonotonicCall /\ calls.arm = 1) =>
        IF flags = 0
        THEN /\ DueIsMinusTicks
             /\ TicksOf(request) > 0 => DueNegative
             /\ TicksOf(request) = 0 => armCall.due = [q |-> 0, r |-> 0]
        ELSE DueIsTicksPlusEpoch /\ DuePositive

C10_Witness ==
    /\ pc = "done"
    /\ MonotonicCall
    /\ flags = 0
    /\ request = TimeSpec(0, 99)
    /\ armCall = [due |-> [q |-> 0, r |-> 0], ok |-> TRUE]
    /\ result = 0

(***************************************************************************)
(* realpath, one action per step                                           *)
(***************************************************************************)
PathInit == CallInit /\ ArithIdle /\ PathIdle

\* a caller enters realpath(path, resolved_path)
RealpathCall ==
    /\ rpc \in {"idle", "done"}
    /\ nPathCalls < MaxPathCalls
    /\ \E r \in BOOLEAN : resolved' = r
    /\ nPathCalls' = nPathCalls + 1
    /\ hPath' = 0
    /\ finalName' = <<>>
    /\ sz' = 0
    /\ fn' = <<>>
    /\ rpResult' = NoResult
    /\ pathCalls' = NoPathCalls
    /\ rpc' = "open"
    /\ UNCHANGED <<pathErrno, fileHandles>>
    /\ UNCHANGED <<op, searchHandles>>
    /\ UNCHANGED callVars
    /\ UNCHANGED arithVars

\* CreateFile() returns INVALID_HANDLE_VALUE: setErrno, return 0
OpenFail ==
    /\ rpc = "open"
    /\ hPath' = INVALID_HANDLE_VALUE
    /\ \E err \in LastErrors : pathErrno' = setErrno(err)
    /\ pathCalls' = [pathCalls EXCEPT !.open = @ + 1]
    /\ rpResult' = [ptr |-> "NULL", str |-> <<>>]
    /\ rpc' = "done"
    /\ UNCHANGED <<resolved, finalName, sz, fn, fileHandles, nPathCalls>>
    /\ UNCHANGED <<op, searchHandles>>
    /\ UNCHANGED callVars
    /\ UNCHANGED arithVars

\* CreateFile() returns a handle to a file whose final path name is name
OpenOk ==
    /\ rpc = "open"
    /\ hPath' = 1
    /\ \E name \in FinalNames : finalName' = name
    /\ fileHandles' = fileHandles + 1
    /\ pathCalls' = [pathCalls EXCEPT !.open = @ + 1]
    /\ rpc' = "opened"
    /\ UNCHANGED <<resolved, sz, fn, rpResult, pathErrno, nPathCalls>>
    /\ UNCHANGED <<op, searchHandles>>
    /\ UNCHANGED callVars
    /\ UNCHANGED arithVars

\* resolved_path == NULL and the size query returns 0: setErrno, return 0
SizeFail ==
    /\ rpc = "opened"
    /\ ~resolved
    /\ sz' = 0
    /\ \E err \in LastErrors : pathErrno' = setErrno(err)
    /\ pathCalls' = [pathCalls EXCEPT !.size = @ + 1]
    /\ rpResult' = [ptr |-> "NULL", str |-> <<>>]
    /\ rpc' = "done"
    /\ UNCHANGED <<resolved, hPath, finalName, fn, fileHandles, nPathCalls>>
    /\ UNCHANGED <<op, searchHandles>>
    /\ UNCHANGED callVars
    /\ UNCHANGED arithVars

\* resolved_path == NULL and the size query returns the size needed:
\* fn = malloc(++s)
SizeOk ==
    /\ rpc = "opened"
    /\ ~resolved
    /\ sz' = (Len(finalName) + 1) + 1
    /\ \E mallocOk \in BOOLEAN :
         fn' = IF mallocOk THEN <<>> ELSE NullPtr
    /\ pathCalls' = [pathCalls EXCEPT !.size = @ + 1]
    /\ rpc' = "get"
    /\ UNCHANGED <<resolved, hPath, finalName, rpResult, pathErrno,
                   fileHandles, nPathCalls>>
    /\ UNCHANGED <<op, searchHandles>>
    /\ UNCHANGED callVars
    /\ UNCHANGED arithVars

\* resolved_path != NULL: s = sizeof(buf), fn = buf
UseBuffer ==
    /\ rpc = "opened"
    /\ resolved
    /\ sz' = PATH_MAX + 4 + 1
    /\ fn' = <<>>
    /\ rpc' = "get"
    /\ UNCHANGED <<resolved, hPath, finalName, rpResult, pathErrno,
                   fileHandles, pathCalls, nPathCalls>>
    /\ UNCHANGED <<op, searchHandles>>
    /\ UNCHANGED callVars
    /\ UNCHANGED arithVars

\* GetFinalPathNameByHandleA(hPath, fn, s, ...) fills fn, or fails and
\* leaves fn unwritten (its return value is not tested); then
\* CloseHandle(hPath)
GetAndClose ==
    /\ rpc = "get"
    /\ fn # NullPtr
    /\ \/ fn' = finalName
       \/ \E junk \in Unfilled : fn' = junk
    /\ fileHandles' = fileHandles - 1
    /\ pathCalls' = [pathCalls EXCEPT !.get = @ + 1, !.close = @ + 1]
    /\ rpc' = "strip"
    /\ UNCHANGED <<resolved, hPath, finalName, sz, rpResult, pathErrno,
                   nPathCalls>>
    /\ UNCHANGED <<op, searchHandles>>
    /\ UNCHANGED callVars
    /\ UNCHANGED arithVars

\* fn is NULL: the query either faults on the NULL buffer, or fails and
\* CloseHandle(hPath) runs before memcmp(fn, ...) faults
GetWithNull ==
    /\ rpc = "get"
    /\ fn = NullPtr
    /\ \/ /\ pathCalls' = [pathCalls EXCEPT !.get = @ + 1]
          /\ UNCHANGED fileHandles
       \/ /\ pathCalls' = [pathCalls EXCEPT !.get = @ + 1, !.close = @ + 1]
          /\ fileHandles' = fileHandles - 1
    /\ rpc' = "fault"
    /\ UNCHANGED <<resolved, hPath, finalName, sz, fn, rpResult, pathErrno,
                   nPathCalls>>
    /\ UNCHANGED <<op, searchHandles>>
    /\ UNCHANGED callVars
    /\ UNCHANGED arithVars

\* the prefix is stripped; strcpy into resolved_path, or fn is returned.
\* When fn holds no NUL within its buffer, strlen, memcpy and strcpy run
\* past it, and when the prefix is stripped memcpy may read behind the
\* buffer: the call returns the string or faults
Finish ==
    /\ rpc = "strip"
    /\ fn' = StripPrefix(sz, fn)
    /\ \/ /\ rpResult' = [ptr |-> IF resolved THEN "resolved_path" ELSE "fn",
                          str |-> fn']
          /\ rpc' = "done"
       \/ /\ Unterminated(fn) \/ ReadsPast(sz, fn)
          /\ rpc' = "fault"
          /\ UNCHANGED rpResult
    /\ UNCHANGED <<resolved, hPath, finalName, sz, pathErrno, fileHandles,
                   pathCalls, nPathCalls>>
    /\ UNCHANGED <<op, searchHandles>>
    /\ UNCHANGED callVars
    /\ UNCHANGED arithVars

\* the process is between two calls and may start another
BetweenCalls ==
    /\ rpc \in {"idle", "done"}
    /\ nPathCalls < MaxPathCalls

\* readlink(path, buf, bufsiz)
readlink ==
    /\ BetweenCalls
    /\ nPathCalls' = nPathCalls + 1
    /\ \/ \E err \in LastErrors :
            \* GetFileAttributesA returns INVALID_FILE_ATTRIBUTES
            /\ pathErrno' = setErrno(err)
            /\ op' = Returned("readlink", -1)
       \/ \* the path is no reparse point
          /\ pathErrno' = EINVAL
          /\ op' = Returned("readlink", -1)
       \/ \E err \in LastErrors :
            \* CreateFileA returns INVALID_HANDLE_VALUE
            /\ pathErrno' = setErrno(err)
            /\ op' = Returned("readlink", -1)
       \/ \E err \in LastErrors :
            \* DeviceIoControl fails, after CloseHandle(handle)
            /\ pathErrno' = setErrno(err)
            /\ op' = [Returned("readlink", -1) EXCEPT !.opens = 1,
                                                      !.closes = 1]
       \/ \* the tag is neither a mount point's nor a symbolic link's
          /\ pathErrno' = EINVAL
          /\ op' = [Returned("readlink", -1) EXCEPT !.opens = 1,
                                                    !.closes = 1]
       \/ \E bytes \in PrintNameLengths, bufsiz \in BufSizes, k \in MbWidths :
            \* n characters are converted by wctomb(&buf[i], ...), its
            \* result ignored: the widest of them stores k bytes, and one
            \* the locale cannot convert sets errno; buf[i++] = 0, i is
            \* returned
            LET len == bytes \div 2
                n   == CopyCount(len, bufsiz)
                i   == n + 1
            IN  /\ op' = [Returned("readlink", i) EXCEPT
                              !.opens = 1,
                              !.closes = 1,
                              !.overrun = \/ i > bufsiz
                                          \/ n > 0 /\ (n - 1) + k > bufsiz]
                /\ \/ UNCHANGED pathErrno
                   \/ n > 0 /\ pathErrno' = EILSEQ
    /\ UNCHANGED <<rpc, resolved, hPath, finalName, sz, fn, rpResult,
                   fileHandles, pathCalls, searchHandles>>
    /\ UNCHANGED callVars
    /\ UNCHANGED arithVars

\* the body of isSymLink(path) returning is: FindFirstFile fails, or its
\* search handle is passed to CloseHandle, which is not the call that
\* releases a search handle (FindClose): the handle is released or stays
FindFirstAndClose(is, errnoBefore) ==
    \/ /\ is = -1
       /\ \E err \in LastErrors : pathErrno' = setErrno(err)
       /\ UNCHANGED searchHandles
    \/ /\ is \in {0, 1}
       /\ pathErrno' = errnoBefore
       /\ \/ searchHandles' = searchHandles
          \/ searchHandles' = searchHandles + 1

\* isSymLink(path)
isSymLink ==
    /\ BetweenCalls
    /\ nPathCalls' = nPathCalls + 1
    /\ \E is \in {-1, 0, 1} :
         /\ FindFirstAndClose(is, pathErrno)
         /\ op' = Returned("isSymLink", is)
    /\ UNCHANGED <<rpc, resolved, hPath, finalName, sz, fn, rpResult,
                   fileHandles, pathCalls>>
    /\ UNCHANGED callVars
    /\ UNCHANGED arithVars

\* lstat(path, buf): _stat64 sets errno when it fails and then leaves st
\* unwritten, so the fields copied to buf are whatever st held
lstat ==
    /\ BetweenCalls
    /\ nPathCalls' = nPathCalls + 1
    /\ \E s \in {0, -1}, is \in {-1, 0, 1} :
         \E st_mode \in (IF s = 0 THEN StatModes ELSE SUBSET ModeBits),
            e \in (IF s = 0 THEN {pathErrno} ELSE StatErrnos) :
            /\ FindFirstAndClose(is, e)
            /\ op' = [Returned("lstat", IF is < 0 THEN -1 ELSE s) EXCEPT
                          !.mode = IF is > 0
                                   THEN (st_mode \cup S_IFLNK) \ S_IFDIR
                                   ELSE st_mode]
    /\ UNCHANGED <<rpc, resolved, hPath, finalName, sz, fn, rpResult,
                   fileHandles, pathCalls>>
    /\ UNCHANGED callVars
    /\ UNCHANGED arithVars

\* symlink(oldpath, newpath)
symlink ==
    /\ BetweenCalls
    /\ nPathCalls' = nPathCalls + 1
    /\ \/ \E e \in StatErrnos :
            \* stat fails: its result is returned
            /\ pathErrno' = e
            /\ op' = Returned("symlink", -1)
       \/ \E st_mode \in StatModes :
            \* CreateSymbolicLinkA succeeds
            /\ op' = [Returned("symlink", 0) EXCEPT
                          !.dwflags = SymlinkFlags(st_mode)]
            /\ UNCHANGED pathErrno
       \/ \E st_mode \in StatModes, err \in LastErrors :
            \* CreateSymbolicLinkA fails
            /\ pathErrno' = setErrno(err)
            /\ op' = [Returned("symlink", -1) EXCEPT
                          !.dwflags = SymlinkFlags(st_mode)]
    /\ UNCHANGED <<rpc, resolved, hPath, finalName, sz, fn, rpResult,
                   fileHandles, pathCalls, searchHandles>>
    /\ UNCHANGED callVars
    /\ UNCHANGED arithVars

\* link(oldpath, newpath)
link ==
    /\ BetweenCalls
    /\ nPathCalls' = nPathCalls + 1
    /\ \/ \E e \in StatErrnos :
            \* stat fails: its result is returned
            /\ pathErrno' = e
            /\ op' = Returned("link", -1)
       \/ \E st_mode \in StatModes :
            \* oldpath is a directory
            /\ S_ISDIR(st_mode)
            /\ pathErrno' = EPERM
            /\ op' = Returned("link", -1)
       \/ \E st_mode \in StatModes :
            \* CreateHardLinkA succeeds
            /\ ~S_ISDIR(st_mode)
            /\ op' = Returned("link", 0)
            /\ UNCHANGED pathErrno
       \/ \E st_mode \in StatModes, err \in LastErrors :
            \* CreateHardLinkA fails
            /\ ~S_ISDIR(st_mode)
            /\ pathErrno' = setErrno(err)
            /\ op' = Returned("link", -1)
    /\ UNCHANGED <<rpc, resolved, hPath, finalName, sz, fn, rpResult,
                   fileHandles, pathCalls, searchHandles>>
    /\ UNCHANGED callVars
    /\ UNCHANGED arithVars

PathNext ==
    \/ RealpathCall
    \/ OpenFail
    \/ OpenOk
    \/ SizeFail
    \/ SizeOk
    \/ UseBuffer
    \/ GetAndClose
    \/ GetWithNull
    \/ Finish
    \/ readlink
    \/ isSymLink
    \/ lstat
    \/ symlink
    \/ link

RealpathSpec == PathInit /\ [][PathNext]_vars

(***************************************************************************)
(* Properties of realpath (under RealpathSpec)                             *)
(***************************************************************************)
\* C11: when realpath has returned, every file handle it opened for the path
\* has been closed exactly once: a call whose CreateFile succeeded has
\* invoked CloseHandle once, and no handle is left open, also when
\* resolved_path is NULL and the query for the size fails.
C11_PathHandleClosed ==
    rpc = "done" =>
        /\ fileHandles = 0
        /\ pathCalls.close = (IF hPath = 1 THEN 1 ELSE 0)

\* a call with resolved_path = NULL that went through both queries and
\* returned the stripped name with its handle closed
C11_Reached ==
    /\ rpc = "done"
    /\ ~resolved
    /\ hPath = 1
    /\ pathCalls.size = 1
    /\ pathCalls.close = 1
    /\ fileHandles = 0
    /\ rpResult = [ptr |-> "fn", str |-> <<"C", ":", "\\", "a">>]

====
